---- MODULE Spec2Model ----
(***************************************************************************)
(* Model of app/main.py: the CryptoRatesAPI cache (get_exchange_rates,     *)
(* process_rates_data) and the Flask routes that call it (/, /api/rates,   *)
(* /health).                                                               *)
(*                                                                         *)
(* Python values are modelled as follows.                                  *)
(*   dict            a function whose domain is the set of its keys; the   *)
(*                   records [value |-> 1] and <<>> are the dicts          *)
(*                   {"value": 1} and {}                                   *)
(*   ordered mapping (the insertion-ordered dict `rates`) a sequence of    *)
(*                   <<key, value>> pairs with distinct keys               *)
(*   time.time()     the integer variable now, in ticks                    *)
(*   an exception    the name of its class                                 *)
(***************************************************************************)
EXTENDS Integers, Sequences, FiniteSets, TLC

VARIABLES
    cached_data,    \* CryptoRatesAPI.cached_data: None or the last snapshot
    last_fetch,     \* CryptoRatesAPI.last_fetch
    API_CALLS,      \* the counter coingecko_api_calls_total, by status label
    call_count,     \* number of requests sent to the upstream so far
    now,            \* the wall clock
    rec,            \* what the last handled HTTP request did and answered
    handlers,       \* the request-handler threads inside get_exchange_rates
    written         \* which upstream request each cache field was last
                    \* written for (0: the constructor)

vars == <<cached_data, last_fetch, API_CALLS, call_count, now, rec,
          handlers, written>>

-----------------------------------------------------------------------------
(* Bounds of the model *)

MaxLen == 3         \* longest `rates` mapping the transform is given
MaxTime == 5        \* the clock stops here
MaxCalls == 2       \* upstream requests per behaviour

(* Configuration, in clock ticks (the defaults are 300 s and 10 s) *)

cache_duration == 2
timeout == 1

StartTime == 2      \* time.time() when the process starts

-----------------------------------------------------------------------------
(* Python helpers *)

None == <<>>

\* truth value of `self.cached_data`: None is false, a snapshot (a dict of
\* three keys) is true
Truthy(d) == d # None

\* dict.get(key, default)
get(d, key, default) == IF key \in DOMAIN d THEN d[key] ELSE default

-----------------------------------------------------------------------------
(* What the upstream can answer *)

Codes == {"btc", "eth", "ltc", "usd"}

FullEntry(c, v) ==
    [name  |-> CASE c = "btc" -> "Bitcoin" [] c = "eth" -> "Ether"
                 [] c = "ltc" -> "Litecoin" [] OTHER -> "US Dollar",
     unit  |-> CASE c = "btc" -> "BTC" [] c = "eth" -> "ETH"
                 [] c = "ltc" -> "LTC" [] OTHER -> "$",
     value |-> v,
     type  |-> IF c = "usd" THEN "fiat" ELSE "crypto"]

\* the objects the upstream may send for currency c: a complete one, one
\* with only a value, and an empty one
EntryData(c) == {FullEntry(c, 2), [value |-> 1], <<>>}

Items(codes) == UNION {{<<c, d>> : d \in EntryData(c)} : c \in codes}

\* ordered mappings of at most n entries: the keys of a dict are distinct
RateSeqs(codes, n) ==
    UNION {{s \in [1..k -> Items(codes)] :
               \A i, j \in 1..k : i # j => s[i][1] # s[j][1]} : k \in 0..n}

\* JSON bodies: with a `rates` mapping, or without one
Payloads(codes, n) ==
    {[invalid |-> "response"]} \cup {[rates |-> s] : s \in RateSeqs(codes, n)}

\* the bodies the running server receives, and the larger set the transform
\* is exercised with
ServedPayloads == Payloads({"btc", "usd"}, 2)
TestPayloads == Payloads(Codes, MaxLen)

Response(p) == [kind |-> "http", status_code |-> 200, json |-> p]

\* outcomes of requests.get(...): an exception, or a response
Upstream ==
    {[kind |-> "exc", exc |-> "ConnectTimeout"],
     [kind |-> "http", status_code |-> 500]}
    \cup {Response(p) : p \in ServedPayloads}

NoRequest == [kind |-> "none"]

\* the anticipated upstream failures
NetworkError(up) == up.kind = "exc"
StatusError(up) == up.kind = "http" /\ up.status_code # 200
Malformed(up) ==
    up.kind = "http" /\ up.status_code = 200 /\ "rates" \notin DOMAIN up.json
Failed(up) == NetworkError(up) \/ StatusError(up) \/ Malformed(up)
Succeeded(up) ==
    up.kind = "http" /\ up.status_code = 200 /\ "rates" \in DOMAIN up.json

-----------------------------------------------------------------------------
(* CryptoRatesAPI.process_rates_data *)

build_rates_wrong_name(raw_rates) ==
    [i \in 1..Len(raw_rates) |->
        LET currency == raw_rates[i][1]
            data == raw_rates[i][2]
        IN  <<currency,
              [name  |-> get(data, "name", "N/A"),
               unit  |-> get(data, "unit", "N/A"),
               value |-> get(data, "value", 0),
               type  |-> get(data, "type", "unknown")]>>]

\* the loop that fills `rates`: one entry per upstream entry, in the
\* upstream's order, every absent field replaced by its default
build_rates(raw_rates) ==
    [i \in 1..Len(raw_rates) |->
        LET currency == raw_rates[i][1]
            data == raw_rates[i][2]
        IN  <<currency,
              [name  |-> get(data, "name", currency),
               unit  |-> get(data, "unit", "N/A"),
               value |-> get(data, "value", 0),
               type  |-> get(data, "type", "unknown")]>>]

\* the sort key: lambda x: x[1]['value']
key(x) == x[2].value

\* where sorted(..., reverse=True) puts x in an already sorted list: behind
\* every item whose key is greater or equal
RECURSIVE insert_desc_unstable(_, _)
insert_desc_unstable(x, s) ==
    IF s = <<>> THEN <<x>>
    ELSE IF key(Head(s)) > key(x)
         THEN <<Head(s)>> \o insert_desc_unstable(x, Tail(s))
         ELSE <<x>> \o s

RECURSIVE insert_desc(_, _)
insert_desc(x, s) ==
    IF s = <<>> THEN <<x>>
    ELSE IF key(Head(s)) >= key(x)
         THEN <<Head(s)>> \o insert_desc(x, Tail(s))
         ELSE <<x>> \o s

\* sorted(rates.items(), key=..., reverse=True): a stable sort, by key
\* descending
RECURSIVE sorted_desc(_)
sorted_desc(items) ==
    IF items = <<>> THEN <<>>
    ELSE insert_desc(items[Len(items)],
                     sorted_desc(SubSeq(items, 1, Len(items) - 1)))

process_rates_data_counts_raw(raw_data, datetime_now) ==
    LET sorted_rates == sorted_desc(build_rates(raw_data.rates))
    IN  [rates            |-> sorted_rates,
         last_updated     |-> datetime_now,
         total_currencies |-> Cardinality(DOMAIN raw_data)]

\* the returned dict, for a raw_data that has the key 'rates'
process_rates_data(raw_data, datetime_now) ==
    LET sorted_rates == sorted_desc(build_rates(raw_data.rates))
    IN  [rates            |-> sorted_rates,
         last_updated     |-> datetime_now,
         total_currencies |-> Len(sorted_rates)]

-----------------------------------------------------------------------------
(* CryptoRatesAPI.get_exchange_rates *)

NoReturn == <<>>    \* the call raised instead of returning

\* "Return cached data if still valid"
CacheValid_le(cached, fetched, current_time) ==
    Truthy(cached) /\ current_time - fetched <= cache_duration

CacheValid_never(cached, fetched, current_time) == FALSE

CacheValid(cached, fetched, current_time) ==
    Truthy(cached) /\ current_time - fetched < cache_duration

\* str(e), by the class of e
ErrorMessage(e) == <<"Unable to fetch exchange rates: ", e>>

\* the handler of requests.exceptions.RequestException
OnRequestException_error(cached, fetched, e) ==
    [ret |-> [error |-> ErrorMessage(e)], exc |-> "none",
     cached_data |-> cached, last_fetch |-> fetched,
     label |-> "error", requests |-> 1]

OnRequestException_caches(cached, fetched, e) ==
    LET out == IF Truthy(cached) THEN cached ELSE [error |-> ErrorMessage(e)]
    IN  [ret |-> out, exc |-> "none",
         cached_data |-> out, last_fetch |-> fetched,
         label |-> "error", requests |-> 1]

OnRequestException_retries(cached, fetched, e) ==
    [ret |-> IF Truthy(cached) THEN cached ELSE [error |-> ErrorMessage(e)],
     exc |-> "none",
     cached_data |-> cached, last_fetch |-> fetched,
     label |-> "error", requests |-> 2]

OnRequestException(cached, fetched, e) ==
    [ret |-> IF Truthy(cached) THEN cached ELSE [error |-> ErrorMessage(e)],
     exc |-> "none",
     cached_data |-> cached, last_fetch |-> fetched,
     label |-> "error", requests |-> 1]

\* lines 61-69: the response is a 2xx, its body has a `rates` mapping
OnResponse_late_stamp(cached, fetched, current_time, data, datetime_now) ==
    LET new == process_rates_data(data, datetime_now)
    IN  [ret |-> new, exc |-> "none",
         cached_data |-> new, last_fetch |-> datetime_now,
         label |-> "success", requests |-> 1]

OnResponse(cached, fetched, current_time, data, datetime_now) ==
    LET new == process_rates_data(data, datetime_now)
    IN  [ret |-> new, exc |-> "none",
         cached_data |-> new, last_fetch |-> current_time,
         label |-> "success", requests |-> 1]

\* One call, started at current_time with the fields (cached, fetched), to
\* which the upstream answers up (if asked) at datetime_now.  The result
\* gives the returned value or the exception that escapes, the fields after
\* the call, the label of the counter incremented and the number of
\* upstream requests sent.
get_exchange_rates(cached, fetched, current_time, up, datetime_now) ==
    IF up = NoRequest       \* only when CacheValid(cached, fetched, current_time)
    THEN [ret |-> cached, exc |-> "none",
          cached_data |-> cached, last_fetch |-> fetched,
          label |-> "none", requests |-> 0]
    ELSE IF up.kind = "exc"
    THEN OnRequestException(cached, fetched, up.exc)
    ELSE IF up.status_code # 200        \* response.raise_for_status()
    THEN OnRequestException(cached, fetched, "HTTPError")
    ELSE IF "rates" \notin DOMAIN up.json
    THEN \* process_rates_data raises ValueError, which is not a
         \* RequestException: nothing is assigned, no counter is incremented
         [ret |-> NoReturn, exc |-> "ValueError",
          cached_data |-> cached, last_fetch |-> fetched,
          label |-> "none", requests |-> 1]
    ELSE OnResponse(cached, fetched, current_time, up.json, datetime_now)

-----------------------------------------------------------------------------
(* The routes *)

\* 'error' in data
IsError(data) == "error" \in DOMAIN data
IsSnapshot(data) == "rates" \in DOMAIN data

\* index(): the error page with 500, or the page; an exception that leaves
\* the view is answered by Flask with the 500 handler
index_response(r) ==
    IF r.exc # "none" THEN [status |-> 500, health |-> "n/a"]
    ELSE IF IsError(r.ret) THEN [status |-> 500, health |-> "n/a"]
    ELSE [status |-> 200, health |-> "n/a"]

\* api_rates(): jsonify(data)
api_rates_response(r) ==
    IF r.exc # "none" THEN [status |-> 500, health |-> "n/a"]
    ELSE [status |-> 200, health |-> "n/a"]

\* health_check(): `except Exception` catches what the call raises
health_check_response(r) ==
    IF r.exc # "none" THEN [status |-> 500, health |-> "unhealthy"]
    ELSE [status |-> 200,
          health |-> IF ~IsError(r.ret) THEN "healthy" ELSE "degraded"]

\* what the caller of get_exchange_rates answers: a route its HTTP status,
\* a direct caller nothing
Respond(route, r) ==
    CASE route = "/" -> index_response(r)
      [] route = "/api/rates" -> api_rates_response(r)
      [] route = "/health" -> health_check_response(r)
      [] OTHER -> [status |-> 0, health |-> "n/a"]

\* the snapshot's age when a call starts (-1: there is none)
Age(cached, fetched, current_time) ==
    IF Truthy(cached) THEN current_time - fetched ELSE -1

\* the upstream answers a call can meet: none if it does not ask
Answers ==
    IF CacheValid(cached_data, last_fetch, now) THEN {NoRequest} ELSE Upstream

\* the ticks an upstream request can take
Latencies(up) == IF up = NoRequest THEN {0} ELSE 0..timeout

\* A request to one route: the view calls crypto_api.get_exchange_rates()
\* once; the upstream, if asked, answers up after d ticks.
Handle(route, up, d) ==
    LET r == get_exchange_rates(cached_data, last_fetch, now, up, now + d)
        a == Respond(route, r)
    IN  /\ call_count + r.requests <= MaxCalls
        /\ now + d <= MaxTime
        /\ cached_data' = r.cached_data
        /\ last_fetch' = r.last_fetch
        /\ API_CALLS' = IF r.label = "none" THEN API_CALLS
                        ELSE [API_CALLS EXCEPT ![r.label] = @ + 1]
        /\ call_count' = call_count + r.requests
        /\ now' = now + d
        /\ rec' = [route |-> route, t0 |-> now,
                   age |-> Age(cached_data, last_fetch, now),
                   up |-> up, ret |-> r.ret, exc |-> r.exc,
                   status |-> a.status, health |-> a.health]
        /\ UNCHANGED <<handlers, written>>

index ==
    \E up \in Answers : \E d \in Latencies(up) :
        Handle("/", up, d)

api_rates ==
    \E up \in Answers : \E d \in Latencies(up) :
        Handle("/api/rates", up, d)

health_check ==
    \E up \in Answers : \E d \in Latencies(up) :
        Handle("/health", up, d)

\* the threads that serve requests
Handlers == {1, 2}

\* a thread that is not inside get_exchange_rates; saw tells whether the two
\* cache fields it last read belonged to the same fetch
NotCalling(saw) ==
    [pc |-> "idle", t |-> 0, req |-> 0, new |-> None, saw |-> saw]

\* time passes; requests.get(..., timeout=self.timeout) does not outlast
\* its timeout
Tick ==
    /\ now < MaxTime
    /\ \A h \in Handlers :
          handlers[h].pc = "wait" => now < handlers[h].t + timeout
    /\ now' = now + 1
    /\ UNCHANGED <<cached_data, last_fetch, API_CALLS, call_count, rec,
                   handlers, written>>

Init ==
    /\ cached_data = None
    /\ last_fetch = 0
    /\ API_CALLS = [success |-> 0, error |-> 0]
    /\ call_count = 0
    /\ now = StartTime
    /\ rec = [route |-> "none", t0 |-> StartTime, age |-> -1,
              up |-> NoRequest, ret |-> NoReturn, exc |-> "none",
              status |-> 0, health |-> "n/a"]
    /\ handlers = [h \in Handlers |-> NotCalling("none")]
    /\ written = [data |-> 0, stamp |-> 0]

Next == index \/ api_rates \/ health_check \/ Tick

Spec == Init /\ [][Next]_vars

-----------------------------------------------------------------------------
(* The unit tests of TestCryptoRatesAPI: setup_method builds a new          *)
(* CryptoRatesAPI, the test calls one method of it, requests_mock answers  *)
(* at once.                                                                *)

Fresh == rec.route = "none"

\* test_data_processing, test_invalid_api_response:
\* api.process_rates_data(raw_data)
test_data_processing ==
    \E raw_data \in TestPayloads :
        /\ Fresh
        /\ rec' = [route |-> "process_rates_data", t0 |-> now, age |-> -1,
                   up |-> Response(raw_data),
                   ret |-> IF "rates" \in DOMAIN raw_data
                           THEN process_rates_data(raw_data, now)
                           ELSE NoReturn,
                   exc |-> IF "rates" \in DOMAIN raw_data
                           THEN "none" ELSE "ValueError",
                   status |-> 0, health |-> "n/a"]
        /\ UNCHANGED <<cached_data, last_fetch, API_CALLS, call_count, now,
                       handlers, written>>

\* test_successful_api_call: api.get_exchange_rates()
test_successful_api_call ==
    \E raw_data \in TestPayloads :
        /\ Fresh
        /\ Handle("get_exchange_rates", Response(raw_data), 0)

TestNext == test_data_processing \/ test_successful_api_call

SpecTests == Init /\ [][TestNext]_vars

-----------------------------------------------------------------------------
(* Concurrent requests: Flask serves each request on a thread of its own,  *)
(* and the threads share crypto_api.  A thread can be suspended between    *)
(* any two statements of get_exchange_rates; the steps below are the ones  *)
(* between which the shared fields are read or written.  The cache check   *)
(* reads both fields in one step: reading them one after the other decides *)
(* nothing that one of the two atomic reads would not.                     *)

\* the answers of the upstream while requests overlap
ConcUpstream ==
    {[kind |-> "exc", exc |-> "ConnectTimeout"],
     [kind |-> "http", status_code |-> 500],
     Response([invalid |-> "response"]),
     Response([rates |-> << <<"btc", [value |-> 1]>> >>])}

\* get_exchange_rates takes no lock: nothing makes a thread wait for another
Blocked_while_fetching(h) ==
    \E g \in Handlers \ {h} : handlers[g].pc = "wait"

Blocked(h) == FALSE

\* the thread after the `except` branch (or an escaping exception): the call
\* is over, there is no retry
OnFailure(hd) == NotCalling(hd.saw)

\* requests.get(..., timeout=self.timeout) ends, with a response or with an
\* exception, at most `timeout` after the request was sent
InTime_no_timeout(h) == now < handlers[h].t + timeout

InTime(h) == now <= handlers[h].t + timeout

\* lines 45-58: read the clock, check the cache, and either return the
\* cached snapshot or send the request
enter(h) ==
    /\ handlers[h].pc = "idle"
    /\ ~Blocked(h)
    /\ LET saw == IF written.data = written.stamp
                  THEN "consistent" ELSE "torn"
       IN  IF CacheValid(cached_data, last_fetch, now)
           THEN /\ handlers' = [handlers EXCEPT ![h] = NotCalling(saw)]
                /\ UNCHANGED call_count
           ELSE /\ call_count < MaxCalls
                /\ call_count' = call_count + 1
                /\ handlers' = [handlers EXCEPT ![h] =
                       [pc |-> "wait", t |-> now, req |-> call_count + 1,
                        new |-> None, saw |-> saw]]
    /\ UNCHANGED <<cached_data, last_fetch, API_CALLS, now, rec, written>>

\* lines 55-61 and 71-80: the upstream answers; a failure ends the call
\* (counted as an error if it is a RequestException), a good body is
\* transformed
receive(h) ==
    /\ handlers[h].pc = "wait"
    /\ ~Blocked(h)
    /\ InTime(h)
    /\ \E up \in ConcUpstream :
          LET r == get_exchange_rates(cached_data, last_fetch,
                                      handlers[h].t, up, now)
          IN  IF Succeeded(up)
              THEN /\ handlers' = [handlers EXCEPT ![h].pc = "store",
                                                   ![h].new = r.cached_data]
                   /\ UNCHANGED API_CALLS
              ELSE /\ handlers' =
                          [handlers EXCEPT ![h] = OnFailure(handlers[h])]
                   /\ API_CALLS' =
                          IF r.label = "none" THEN API_CALLS
                          ELSE [API_CALLS EXCEPT ![r.label] = @ + 1]
    /\ UNCHANGED <<cached_data, last_fetch, call_count, now, rec, written>>

\* line 62: self.cached_data = ...
store(h) ==
    /\ handlers[h].pc = "store"
    /\ ~Blocked(h)
    /\ cached_data' = handlers[h].new
    /\ written' = [written EXCEPT !.data = handlers[h].req]
    /\ handlers' = [handlers EXCEPT ![h].pc = "stamp"]
    /\ UNCHANGED <<last_fetch, API_CALLS, call_count, now, rec>>

\* lines 63-69: self.last_fetch = current_time, count the success, return
stamp(h) ==
    /\ handlers[h].pc = "stamp"
    /\ ~Blocked(h)
    /\ last_fetch' = handlers[h].t
    /\ written' = [written EXCEPT !.stamp = handlers[h].req]
    /\ API_CALLS' = [API_CALLS EXCEPT !["success"] = @ + 1]
    /\ handlers' = [handlers EXCEPT ![h] = NotCalling(handlers[h].saw)]
    /\ UNCHANGED <<cached_data, call_count, now, rec>>

ConcNext ==
    \/ \E h \in Handlers : enter(h) \/ receive(h) \/ store(h) \/ stamp(h)
    \/ Tick

SpecConc == Init /\ [][ConcNext]_vars

\* every thread that can take a step is scheduled, and the upstream answers
\* or the timeout expires
SpecConcLive ==
    /\ SpecConc
    /\ \A h \in Handlers :
          WF_vars(receive(h)) /\ WF_vars(store(h)) /\ WF_vars(stamp(h))

-----------------------------------------------------------------------------
(* Properties *)

\* a step in which a request is handled (every step but Tick and stuttering)
RequestStep == call_count' # call_count \/ now' = now

Handled == rec.route # "none"

\* the cache-hit condition of the specification, evaluated when a call starts
Fresh_at_start == Truthy(cached_data) /\ now - last_fetch < cache_duration

\* upstream requests sent by the call that rec describes
Requests(r) == IF r.up = NoRequest THEN 0 ELSE 1

\* C1: get_exchange_rates never raises for an anticipated upstream failure
\* (network error, non-2xx status, body without `rates`): it returns a
\* snapshot or an error value.
C1_NeverRaises ==
    Handled /\ Failed(rec.up) =>
        rec.exc = "none" /\ (IsSnapshot(rec.ret) \/ IsError(rec.ret))

\* C2: when a snapshot exists and is stale and the upstream call fails
\* (timeout, 5xx or malformed body), the call returns the previous snapshot,
\* and the snapshot and last_fetch are unchanged, so the cache is still stale.
C2_StaleFallback ==
    [][RequestStep /\ Truthy(cached_data)
         /\ now - last_fetch >= cache_duration /\ Failed(rec'.up)
       => /\ rec'.exc = "none"
          /\ rec'.ret = cached_data
          /\ cached_data' = cached_data
          /\ last_fetch' = last_fetch
          /\ now' - last_fetch' >= cache_duration]_vars

\* the first half of C3: a call that starts with a fresh snapshot returns it,
\* sends no upstream request, increments no counter and changes no field
HitServesCache ==
    /\ rec'.exc = "none"
    /\ rec'.ret = cached_data
    /\ call_count' = call_count
    /\ API_CALLS' = API_CALLS
    /\ cached_data' = cached_data
    /\ last_fetch' = last_fetch

\* C3 as stated: a cache hit serves the stored snapshot without an upstream
\* call, and any two calls within cache_duration of each other send at most
\* one upstream request and return identical data.
C3_CacheHit_AnyTwoCalls ==
    [][RequestStep =>
         /\ Fresh_at_start => HitServesCache
         /\ Handled /\ now - rec.t0 < cache_duration =>
               /\ Requests(rec) + (call_count' - call_count) <= 1
               /\ rec'.ret = rec.ret]_vars

\* C3, amended: a cache hit serves the stored snapshot without an upstream
\* call, and two calls of which the second starts while the snapshot the
\* first one returned is fresh send at most one upstream request and return
\* identical data.
C3_CacheHit ==
    [][RequestStep /\ Fresh_at_start =>
         /\ HitServesCache
         /\ Handled /\ IsSnapshot(rec.ret) =>
               /\ Requests(rec) + (call_count' - call_count) <= 1
               /\ rec'.ret = rec.ret]_vars

\* a second call was served from the cache inside the window of the first
C3_Witness ==
    /\ Handled /\ rec.up = NoRequest
    /\ rec.age >= 0 /\ rec.age < cache_duration
    /\ rec.ret = cached_data
    /\ call_count = 1

\* C4: a call that starts with no snapshot, or with one whose age is
\* cache_duration or more, sends an upstream request; if that succeeds the
\* stored snapshot is the transformed payload with a new last_updated,
\* last_fetch is the time the call read, and the new snapshot is returned.
C4_CacheRefresh ==
    [][RequestStep /\ ~Fresh_at_start =>
         /\ call_count' = call_count + 1
         /\ rec'.up # NoRequest
         /\ Succeeded(rec'.up) =>
               /\ cached_data' = process_rates_data(rec'.up.json, now')
               /\ cached_data'.last_updated >= now
               /\ Truthy(cached_data) =>
                     cached_data'.last_updated > cached_data.last_updated
               /\ last_fetch' = now
               /\ rec'.exc = "none"
               /\ rec'.ret = cached_data']_vars

\* a snapshot was replaced when its age was exactly cache_duration
C4_Witness ==
    /\ Handled /\ rec.age = cache_duration
    /\ Succeeded(rec.up)
    /\ rec.ret = cached_data
    /\ last_fetch = rec.t0

\* C5: with no snapshot stored, a network error or a non-2xx status makes the
\* call return an error value with a message; nothing is cached (cached_data
\* stays None, last_fetch stays 0), and a call that starts with no snapshot
\* always asks the upstream.
C5_ColdFailure ==
    [][RequestStep /\ cached_data = None =>
         /\ call_count' = call_count + 1
         /\ last_fetch = 0
         /\ NetworkError(rec'.up) \/ StatusError(rec'.up) =>
               /\ rec'.exc = "none"
               /\ IsError(rec'.ret) /\ ~IsSnapshot(rec'.ret)
               /\ Len(rec'.ret.error) > 0
               /\ cached_data' = None
               /\ last_fetch' = 0]_vars

\* a cold failure was followed by a call that asked the upstream again and
\* failed too
C5_Witness ==
    /\ Handled /\ rec.age = -1
    /\ NetworkError(rec.up) \/ StatusError(rec.up)
    /\ IsError(rec.ret)
    /\ cached_data = None
    /\ call_count = 2 /\ API_CALLS.error = 2

\* C6: once a snapshot is stored it is never cleared, and no later call
\* returns an error value.
C6_NoErrorAfterSnapshot ==
    [][Truthy(cached_data) =>
         /\ IsSnapshot(cached_data')
         /\ RequestStep => ~IsError(rec'.ret)]_vars

\* an upstream failure met a stored snapshot, which was returned
C6_Witness ==
    /\ Handled /\ rec.age >= cache_duration
    /\ NetworkError(rec.up) \/ StatusError(rec.up)
    /\ IsSnapshot(rec.ret) /\ rec.ret = cached_data

\* C7: GET /api/rates answers 200 in every cache state and for every
\* upstream outcome.
C7_ApiRatesAlways200 == rec.route = "/api/rates" => rec.status = 200

\* C8: GET /health answers 200 "healthy" on a snapshot and 200 "degraded" on
\* an error value; an anticipated upstream failure never gives "unhealthy".
C8_HealthStatus ==
    rec.route = "/health" =>
        /\ IsSnapshot(rec.ret) => rec.status = 200 /\ rec.health = "healthy"
        /\ IsError(rec.ret) => rec.status = 200 /\ rec.health = "degraded"
        /\ rec.health = "unhealthy" => rec.status = 500
        /\ Failed(rec.up) => rec.health # "unhealthy"

\* C9: GET / answers 500 exactly when the result of get_exchange_rates is an
\* error value, and 200 whenever it is a snapshot.
C9_IndexStatus ==
    rec.route = "/" =>
        /\ rec.status = 500 <=> IsError(rec.ret)
        /\ IsSnapshot(rec.ret) => rec.status = 200

\* position of the currency c in an ordered mapping
Pos(c, m) == CHOOSE k \in 1..Len(m) : m[k][1] = c

Descending(m) ==
    \A i, j \in 1..Len(m) : i < j => m[i][2].value >= m[j][2].value

StableWrt(m, raw) ==
    \A i, j \in 1..Len(m) :
        i < j /\ m[i][2].value = m[j][2].value =>
            Pos(m[i][1], raw) < Pos(m[j][1], raw)

\* C10: for every payload with `rates` the transform's output is ordered by
\* value descending, entries of equal value in the upstream's order; so is
\* the snapshot stored in the cache.
C10_SortedDescStable ==
    /\ Handled /\ Succeeded(rec.up) =>
          /\ Len(rec.ret.rates) = Len(rec.up.json.rates)
          /\ Descending(rec.ret.rates)
          /\ StableWrt(rec.ret.rates, rec.up.json.rates)
    /\ Truthy(cached_data) => Descending(cached_data.rates)

\* a stored snapshot of three entries that the sort reordered and in which
\* two entries of equal value kept the upstream's order
C10_Witness ==
    /\ rec.route = "get_exchange_rates" /\ Succeeded(rec.up)
    /\ cached_data = rec.ret
    /\ Len(rec.ret.rates) = 3
    /\ rec.ret.rates[1][1] # rec.up.json.rates[1][1]
    /\ \E i, j \in 1..3 :
          i < j /\ rec.ret.rates[i][2].value = rec.ret.rates[j][2].value

\* the upstream entry of currency c
RawOf(c, raw) == raw[Pos(c, raw)][2]

CodesOf(m) == {m[i][1] : i \in 1..Len(m)}

\* C11: every entry of `rates` is transformed with its absent fields replaced
\* by the defaults (name: the currency code, unit: "N/A", value: 0, type:
\* "unknown") and its present fields kept; an absent field neither makes the
\* transform fail nor drops the entry.
C11_Defaulting ==
    Handled /\ Succeeded(rec.up) =>
        /\ rec.exc = "none"
        /\ \A k \in 1..Len(rec.up.json.rates) :
              rec.up.json.rates[k][1] \in CodesOf(rec.ret.rates)
        /\ \A i \in 1..Len(rec.ret.rates) :
              LET c == rec.ret.rates[i][1]
                  out == rec.ret.rates[i][2]
                  data == RawOf(c, rec.up.json.rates)
              IN  /\ DOMAIN out = {"name", "unit", "value", "type"}
                  /\ out.name = IF "name" \in DOMAIN data
                                THEN data.name ELSE c
                  /\ out.unit = IF "unit" \in DOMAIN data
                                THEN data.unit ELSE "N/A"
                  /\ out.value = IF "value" \in DOMAIN data
                                 THEN data.value ELSE 0
                  /\ out.type = IF "type" \in DOMAIN data
                                THEN data.type ELSE "unknown"

\* the transform was given {"value": 1}, {} and a complete entry at once
C11_Witness ==
    /\ rec.route = "process_rates_data" /\ Succeeded(rec.up)
    /\ Len(rec.ret.rates) = 3
    /\ \E i, j, k \in 1..3 :
          /\ DOMAIN rec.up.json.rates[i][2] = {"value"}
          /\ DOMAIN rec.up.json.rates[j][2] = {}
          /\ DOMAIN rec.up.json.rates[k][2] = {"name", "unit", "value", "type"}
    /\ \E i \in 1..3 :
          /\ rec.ret.rates[i][2].name = rec.ret.rates[i][1]
          /\ rec.ret.rates[i][2].value = 0

\* C12: the output `rates` has exactly the currency codes of the input, each
\* once, and total_currencies is the number of its entries; so has the
\* snapshot stored in the cache.
C12_EntriesPreserved ==
    /\ Handled /\ Succeeded(rec.up) =>
          /\ CodesOf(rec.ret.rates) = CodesOf(rec.up.json.rates)
          /\ Len(rec.ret.rates) = Cardinality(CodesOf(rec.ret.rates))
          /\ rec.ret.total_currencies = Len(rec.ret.rates)
    /\ Truthy(cached_data) =>
          /\ cached_data.total_currencies = Len(cached_data.rates)
          /\ rec.route = "get_exchange_rates" /\ Succeeded(rec.up) =>
                CodesOf(cached_data.rates) = CodesOf(rec.up.json.rates)

\* a snapshot of three currencies was stored
C12_Witness ==
    /\ rec.route = "get_exchange_rates" /\ Succeeded(rec.up)
    /\ cached_data = rec.ret
    /\ cached_data.total_currencies = 3
    /\ Cardinality(CodesOf(cached_data.rates)) = 3

\* C14: every upstream attempt increments exactly one of the two counters, so
\* success + error is the number of upstream attempts.
C14_CountersMatchAttempts ==
    API_CALLS.success + API_CALLS.error = call_count

\* C15: a call that misses the cache sends exactly one upstream request,
\* whatever the upstream answers; a call that hits sends none.
C15_OneAttemptPerCall ==
    [][RequestStep =>
         /\ ~Fresh_at_start => call_count' - call_count = 1
         /\ Fresh_at_start => call_count' - call_count = 0
         /\ call_count' - call_count = Requests(rec')]_vars

\* two calls missed the cache, the upstream failed both times, and two
\* requests were sent in all
C15_Witness ==
    /\ Handled /\ Failed(rec.up)
    /\ call_count = 2
    /\ API_CALLS.success = 0

\* C19: a successful refresh sets last_fetch to the time read when the call
\* started, not to the time it completed, so last_fetch is never later than
\* the snapshot's last_updated, and the snapshot is served as fresh exactly
\* until that start time + cache_duration.
C19_FetchStampIsCallStart ==
    [][/\ RequestStep /\ Succeeded(rec'.up) =>
             /\ last_fetch' = now
             /\ cached_data'.last_updated = now'
       /\ Truthy(cached_data') => last_fetch' <= cached_data'.last_updated
       /\ RequestStep /\ Truthy(cached_data) =>
             (rec'.up = NoRequest <=> now < last_fetch + cache_duration)]_vars

\* a snapshot whose fetch took a tick was refetched cache_duration after the
\* start of that fetch, less than cache_duration after its completion
C19_Witness ==
    /\ Handled /\ rec.age = cache_duration /\ rec.up # NoRequest
    /\ Truthy(cached_data)
    /\ NetworkError(rec.up)
    /\ last_fetch < cached_data.last_updated
    /\ rec.t0 - cached_data.last_updated < cache_duration

\* C13: a thread never reads a snapshot together with a last_fetch that was
\* written for a different fetch.
C13_AtomicPairRead ==
    \A h \in Handlers : handlers[h].saw # "torn"

\* the cache check of h would be served or could send its request
CanEnter(h) ==
    /\ handlers[h].pc = "idle"
    /\ CacheValid(cached_data, last_fetch, now) \/ call_count < MaxCalls

\* C16: while the upstream request of one thread is in flight, every other
\* thread can take its next step: start a call (a cache hit or a fetch of
\* its own), receive its answer, or write its result.
C16_FetchExcludesNobody ==
    \A g \in Handlers : \A h \in Handlers \ {g} :
        handlers[g].pc = "wait" =>
            /\ CanEnter(h) => ENABLED enter(h)
            /\ handlers[h].pc = "wait" => ENABLED receive(h)
            /\ handlers[h].pc = "store" => ENABLED store(h)
            /\ handlers[h].pc = "stamp" => ENABLED stamp(h)

\* two upstream requests are in flight at once
C16_Witness ==
    /\ handlers[1].pc = "wait" /\ handlers[2].pc = "wait"
    /\ handlers[1].req # handlers[2].req

\* C17: every call that has started comes to its end, also while another
\* call is running.
C17_EveryCallCompletes ==
    \A h \in Handlers :
        (handlers[h].pc # "idle") ~> (handlers[h].pc = "idle")

\* one of two overlapping fetches has completed, the other is still waiting
C17_Witness ==
    /\ handlers[1].pc = "idle" /\ handlers[1].saw # "none"
    /\ handlers[2].pc = "wait"
    /\ written.stamp > 0 /\ written.stamp # handlers[2].req
    /\ API_CALLS.success = 1

\* C18: last_fetch never decreases, and the stored snapshot is never replaced
\* by the result of an earlier upstream request.
C18_FetchTimeMonotonic ==
    [][last_fetch' >= last_fetch /\ written'.data >= written.data]_vars

====
